---- MODULE Spec2Model ----
(***************************************************************************)
(* Verification model of lsst.pipe.base:                                   *)
(*   - QuantumGraph.traverse                (python/lsst/pipe/base/graph.py) *)
(*   - DatasetTypeNode._from_edges          (pipeline_graph/_dataset_types.py) *)
(*   - Layout                     (pipeline_graph/visualization/_layout.py) *)
(*   - merge_graph_*               (pipeline_graph/visualization/_merge.py) *)
(***************************************************************************)
EXTENDS Integers, Sequences, FiniteSets, TLC

VARIABLES
    qgraph,     \* traverse: the QuantumGraph (self), a list of QuantumGraphTaskNodes
    tpc,        \* traverse: state of the generator returned by traverse()
    order,      \* traverse: the groups in the order orderedTaskNodes yields them
    pos,        \* traverse: number of quanta the nested loops have taken so far
    index,      \* traverse: the local `index`
    outputs,    \* traverse: the local `outputs` mapping
    yielded,    \* traverse: the records the generator has yielded, in order
    second,     \* traverse: the frame of a second generator over the same graph
    in_edges,   \* resolver: the write edges into the dataset-type vertex, in graph order
    out_edges,  \* resolver: the read edges out of the dataset-type vertex, in graph order
    registry,   \* resolver: the registered definition of the dataset type, or None
    previous,   \* resolver: the vertex's stored DatasetTypeNode (<<>> when cleared)
    resolved,   \* resolver: the edges and lookup result `previous` was built from
    outcome,    \* resolver: what the last _from_edges call returned or raised
    self_graph,     \* layout: self._graph
    todo_graph,     \* layout: self._todo_graph
    active_columns, \* layout: self._active_columns, in the dict's insertion order
    locations,      \* layout: self._locations, in the dict's insertion order
    x_max,          \* layout: self.x_max
    components,     \* layout: the weakly connected components __init__ has yet to add
    stack,          \* layout: the loops in progress, innermost last
    lpc,            \* layout: where the construction stands, or how it ended
    active_edges,   \* layout: the local active_edges of __iter__
    rows,           \* layout: the LayoutRows __iter__ has yielded, in order
    xgraph,         \* merge: the graph being merged in place
    options,        \* merge: the NodeAttributeOptions
    merge,          \* merge: which merge function is called, and its depth
    groups,         \* merge: the levels of tree groups _apply_tree_merges has yet to take
    new_group,      \* merge: the groups of the loop in progress that are yet to be taken
    replacements,   \* merge: the local `replacements`
    mpc,            \* merge: where the calls stand
    merged,         \* merge: the graph before the first call and after each call
    steps,          \* tester: what PipelineDatasetTypes.fromPipeline gives for each suffix
    expected_inputs,    \* tester: the field `expected_inputs`
    expected_outputs,   \* tester: the field `expected_outputs`
    all_outputs,    \* tester: the keys of the local `all_outputs`
    pure_inputs,    \* tester: the local `pure_inputs`, name -> suffix
    suffix,         \* tester: the position in step_suffixes of the next step
    ppc,            \* tester: where run() stands
    qpg_summary,    \* annotator: the field `qpg_summary`
    dataset_types,  \* annotator: the argument `dataset_types`
    status,         \* annotator: the "status" attribute of each node of the graph
    apc             \* annotator: where the call stands

tvars == <<qgraph, tpc, order, pos, index, outputs, yielded, second>>
rvars == <<in_edges, out_edges, registry, previous, resolved, outcome>>
lvars == <<self_graph, todo_graph, active_columns, locations, x_max, components, stack, lpc,
           active_edges, rows>>
mvars == <<xgraph, options, merge, groups, new_group, replacements, mpc, merged>>
pvars == <<steps, expected_inputs, expected_outputs, all_outputs, pure_inputs, suffix, ppc>>
avars == <<qpg_summary, dataset_types, status, apc>>
vars == <<qgraph, tpc, order, pos, index, outputs, yielded, second,
          in_edges, out_edges, registry, previous, resolved, outcome,
          self_graph, todo_graph, active_columns, locations, x_max, components, stack, lpc,
          active_edges, rows,
          xgraph, options, merge, groups, new_group, replacements, mpc, merged,
          steps, expected_inputs, expected_outputs, all_outputs, pure_inputs, suffix, ppc,
          qpg_summary, dataset_types, status, apc>>

None == "None"

\* ---------------------------------------------------------------------------
\* Bounds and input domains
\* ---------------------------------------------------------------------------
MaxGroups == 2
MaxQuanta == 2

DataIds == {1, 2}

\* Task definitions the graphs are drawn from, with the dataset types their
\* connections read and write: A writes x; B reads x, writes y; C reads z.
TaskDefs == {"A", "B", "C"}

TaskInputs(t) == CASE t = "A" -> {} [] t = "B" -> {"x"} [] OTHER -> {"z"}

TaskOutputs(t) == CASE t = "A" -> {"x"} [] t = "B" -> {"y"} [] OTHER -> {}

\* A quantum of a task is bound to one data id; `stored` says whether its
\* predicted inputs already exist in the butler (DatasetRef.id is not None).
Quanta == [dataId : DataIds, stored : BOOLEAN]

QuantaLists == UNION {[1..k -> Quanta] : k \in 0..MaxQuanta}

Owners(n, k) == {ow \in [1..k -> 1..n] : \A i, j \in 1..k : i <= j => ow[i] <= ow[j]}

OwnedBy(ow, g) == {i \in DOMAIN ow : ow[i] = g}

FirstOwned(ow, g) == CHOOSE i \in OwnedBy(ow, g) : \A j \in OwnedBy(ow, g) : i <= j

GroupQuanta(fq, ow, g) ==
    IF OwnedBy(ow, g) = {} THEN <<>>
    ELSE [i \in 1..Cardinality(OwnedBy(ow, g)) |-> fq[FirstOwned(ow, g) + i - 1]]

\* QuantumGraphTaskNodes(taskDef, quanta, ...)
QuantumGraphTaskNodes(taskDef, quanta) == [taskDef |-> taskDef, quanta |-> quanta]

MkGraph(ts, fq, ow) ==
    [g \in DOMAIN ts |-> QuantumGraphTaskNodes(ts[g], GroupQuanta(fq, ow, g))]

\* qgraph is one of the lists of at most MaxGroups groups that hold at most
\* MaxQuanta quanta in all.
IsQuantumGraph(graph) ==
    \E n \in 0..MaxGroups : \E ts \in [1..n -> TaskDefs] : \E fq \in QuantaLists :
        \E ow \in Owners(n, Len(fq)) : graph = MkGraph(ts, fq, ow)

\* ---------------------------------------------------------------------------
\* Quantum.predictedInputs / Quantum.outputs of a quantum of task t
\* ---------------------------------------------------------------------------
predictedInputs(t, q) ==
    {[name |-> n, dataId |-> q.dataId, id |-> IF q.stored THEN "stored" ELSE None]
        : n \in TaskInputs(t)}

quantumOutputs(t, q) == {<<n, q.dataId>> : n \in TaskOutputs(t)}

Key(dataRef) == <<dataRef.name, dataRef.dataId>>

\* The traversal's variables while the model runs another component.
TraverseIdle ==
    /\ qgraph = <<>>
    /\ tpc = "idle"
    /\ order = <<>>
    /\ pos = 0
    /\ index = 0
    /\ outputs = <<>>
    /\ yielded = <<>>
    /\ second = <<>>

\* The resolver's variables while the model runs another component.
ResolverIdle ==
    /\ in_edges = <<>>
    /\ out_edges = <<>>
    /\ registry = None
    /\ previous = <<>>
    /\ resolved = <<>>
    /\ outcome = <<>>

\* A networkx.DiGraph: its nodes and its edges.
DiGraph(nodes, edges) == [nodes |-> nodes, edges |-> edges]

\* The layout's variables while the model runs another component.
LayoutIdle ==
    /\ self_graph = DiGraph({}, {})
    /\ todo_graph = DiGraph({}, {})
    /\ active_columns = <<>>
    /\ locations = <<>>
    /\ x_max = 0
    /\ components = {}
    /\ stack = <<>>
    /\ lpc = "idle"
    /\ active_edges = <<>>
    /\ rows = <<>>

\* The merge's variables while the model runs another component.
MergeIdle ==
    /\ xgraph = DiGraph({}, {})
    /\ options = <<>>
    /\ merge = <<>>
    /\ groups = <<>>
    /\ new_group = {}
    /\ replacements = <<>>
    /\ mpc = "idle"
    /\ merged = <<>>

\* The step tester's variables while the model runs another component.
TesterIdle ==
    /\ steps = <<>>
    /\ expected_inputs = {}
    /\ expected_outputs = {}
    /\ all_outputs = {}
    /\ pure_inputs = <<>>
    /\ suffix = 1
    /\ ppc = "idle"

\* The status annotator's variables while the model runs another component.
AnnotatorIdle ==
    /\ qpg_summary = <<>>
    /\ dataset_types = FALSE
    /\ status = <<>>
    /\ apc = "idle"

\* ---------------------------------------------------------------------------
\* QuantumGraph.traverse
\* ---------------------------------------------------------------------------
\* Task b consumes a dataset type that task a produces.
Feeds(a, b) == TaskOutputs(a) \cap TaskInputs(b) # {}

\* pipeTools.orderPipeline: the task definitions of the pipeline in a
\* topological order of the task-level graph (every such order is allowed).
orderPipeline(pipeline) ==
    {[k \in DOMAIN pipeline |-> pipeline[p[k]]] : p \in
        {p \in Permutations(DOMAIN pipeline) :
            \A i, j \in DOMAIN pipeline :
                i < j => ~Feeds(pipeline[p[j]], pipeline[p[i]])}}

\* nodesMap = {id(item.taskDef): item for item in graph}: a later item
\* replaces an earlier one that has the same taskDef.
nodesMap(graph, taskDef) ==
    CHOOSE g \in DOMAIN graph :
        /\ graph[g].taskDef = taskDef
        /\ \A h \in DOMAIN graph : graph[h].taskDef = taskDef => h <= g

\* The groups (as positions in the graph) in the order the inner generator
\* yields them.
orderedTaskNodes(graph) ==
    {[k \in DOMAIN pipeline |-> nodesMap(graph, pipeline[k])] :
        pipeline \in orderPipeline([g \in DOMAIN graph |-> graph[g].taskDef])}

\* The quanta, as <<group, position>>, in the order of the two nested loops.
RECURSIVE Flatten(_, _)
Flatten(graph, ord) ==
    IF ord = <<>> THEN <<>>
    ELSE [i \in 1..Len(graph[Head(ord)].quanta) |-> <<Head(ord), i>>]
             \o Flatten(graph, Tail(ord))

\* SplitGraph without the test of the number of groups.
SplitGraphAnyGroups(graph) == Len(graph[1].quanta) = 1

\* len(self) == 1 and len(self[0].quanta) == 1
SplitGraph(graph) == Len(graph) = 1 /\ Len(graph[1].quanta) = 1

\* The fields of the QuantumIterData dataclass (__slots__ and annotations).
QuantumIterDataFields == {"quantumId", "quantum", "taskDef", "dependencies"}

\* The keyword arguments of the QuantumIterData(...) call in traverse.
YieldArguments(idx, quantum, taskDef, prereq) ==
    [index |-> idx, quantum |-> quantum, taskDef |-> taskDef, dependencies |-> prereq]

\* The generated __init__ takes exactly the dataclass fields, none optional;
\* any other keyword raises TypeError.
InitAccepts(kwargs) == DOMAIN kwargs = QuantumIterDataFields

\* outputs[key] = index for every output of the quantum
RegisterOutputs(outs, keys, idx) ==
    [k \in (DOMAIN outs) \cup keys |-> IF k \in keys THEN idx ELSE outs[k]]

\* The predicted inputs whose producer is looked up: dataRef.id is None
PredictedRefs(t, q) == {r \in predictedInputs(t, q) : r.id = None}

\* One next() on the generator: runs to the next yield, to the end of the
\* loops, or to the exception that ends the generator.  The first next()
\* also runs orderedTaskNodes.
TraverseNext ==
    /\ tpc \in {"created", "suspended"}
    /\ \E ord \in (IF tpc = "created" THEN orderedTaskNodes(qgraph) ELSE {order}) :
         LET flat == Flatten(qgraph, ord)
             idx  == IF tpc = "created" THEN 0 ELSE index + 1
         IN  /\ order' = ord
             /\ index' = idx
             /\ UNCHANGED <<qgraph, second, rvars, lvars, mvars, pvars, avars>>
             /\ IF pos >= Len(flat)
                THEN /\ tpc' = "done"
                     /\ UNCHANGED <<pos, outputs, yielded>>
                ELSE LET at      == flat[pos + 1]
                         nodes   == qgraph[at[1]]
                         quantum == nodes.quanta[at[2]]
                         refs    == PredictedRefs(nodes.taskDef, quantum)
                         missing == {r \in refs : Key(r) \notin DOMAIN outputs}
                         prereq  == {outputs[Key(r)] : r \in refs \ missing}
                         kwargs  == YieldArguments(idx, at, nodes.taskDef, prereq)
                     IN  /\ pos' = pos + 1
                         /\ IF missing # {} /\ ~SplitGraph(qgraph)
                            THEN /\ tpc' = "KeyError"
                                 /\ UNCHANGED <<outputs, yielded>>
                            ELSE /\ outputs' = RegisterOutputs(outputs,
                                        quantumOutputs(nodes.taskDef, quantum), idx)
                                 /\ IF InitAccepts(kwargs)
                                    THEN /\ tpc' = "suspended"
                                         /\ yielded' = Append(yielded, kwargs)
                                    ELSE /\ tpc' = "TypeError"
                                         /\ UNCHANGED yielded

TraverseInit ==
    /\ IsQuantumGraph(qgraph)
    /\ tpc = "created"
    /\ order = <<>>
    /\ pos = 0
    /\ index = 0
    /\ outputs = <<>>
    /\ yielded = <<>>
    /\ second = <<>>
    /\ ResolverIdle
    /\ LayoutIdle
    /\ MergeIdle
    /\ TesterIdle
    /\ AnnotatorIdle

TraverseSpec == TraverseInit /\ [][TraverseNext]_vars

\* ---------------------------------------------------------------------------
\* Two generators over one QuantumGraph
\* ---------------------------------------------------------------------------
\* The locals of one generator returned by traverse().
Frame(state, ord, at, idx, outs, recs) ==
    [tpc |-> state, order |-> ord, pos |-> at, index |-> idx, outputs |-> outs,
     yielded |-> recs]

\* The frame of a generator that has not been advanced.
Created == Frame("created", <<>>, 0, 0, <<>>, <<>>)

\* The frame of the first generator.
First == Frame(tpc, order, pos, index, outputs, yielded)

\* One next() on a generator whose frame is f: the frames it can leave.
Advance(graph, f) ==
    {LET flat == Flatten(graph, ord)
         idx  == IF f.tpc = "created" THEN 0 ELSE f.index + 1
     IN  IF f.pos >= Len(flat)
         THEN Frame("done", ord, f.pos, idx, f.outputs, f.yielded)
         ELSE LET at      == flat[f.pos + 1]
                  nodes   == graph[at[1]]
                  quantum == nodes.quanta[at[2]]
                  refs    == PredictedRefs(nodes.taskDef, quantum)
                  missing == {r \in refs : Key(r) \notin DOMAIN f.outputs}
                  prereq  == {f.outputs[Key(r)] : r \in refs \ missing}
                  kwargs  == YieldArguments(idx, at, nodes.taskDef, prereq)
                  outs    == RegisterOutputs(f.outputs,
                                 quantumOutputs(nodes.taskDef, quantum), idx)
              IN  IF missing # {} /\ ~SplitGraph(graph)
                  THEN Frame("KeyError", ord, f.pos + 1, idx, f.outputs, f.yielded)
                  ELSE IF InitAccepts(kwargs)
                       THEN Frame("suspended", ord, f.pos + 1, idx, outs,
                                  Append(f.yielded, kwargs))
                       ELSE Frame("TypeError", ord, f.pos + 1, idx, outs, f.yielded)
     : ord \in (IF f.tpc = "created" THEN orderedTaskNodes(graph) ELSE {f.order})}

\* orderPipeline is a function of the pipeline: the generator that calls it
\* second gets the order the other one got.
SameOrder(f, other) == other.tpc # "created" => f.order = other.order

\* next() on the first generator.
FirstNext ==
    /\ TraverseNext
    /\ SameOrder(First', second)

\* next() on the second generator.
SecondNext ==
    /\ second.tpc \in {"created", "suspended"}
    /\ second' \in Advance(qgraph, second)
    /\ SameOrder(second', First)
    /\ UNCHANGED <<qgraph, tpc, order, pos, index, outputs, yielded, rvars, lvars, mvars, pvars, avars>>

TwoTraversalsInit ==
    /\ IsQuantumGraph(qgraph)
    /\ tpc = "created"
    /\ order = <<>>
    /\ pos = 0
    /\ index = 0
    /\ outputs = <<>>
    /\ yielded = <<>>
    /\ second = Created
    /\ ResolverIdle
    /\ LayoutIdle
    /\ MergeIdle
    /\ TesterIdle
    /\ AnnotatorIdle

TwoTraversalsNext ==
    \/ FirstNext
    \/ SecondNext

TwoTraversalsSpec == TwoTraversalsInit /\ [][TwoTraversalsNext]_vars

\* ---------------------------------------------------------------------------
\* Claims about QuantumGraph.traverse
\* ---------------------------------------------------------------------------
\* The generator has ended: exhausted, or ended by an exception.
TraverseEnded == tpc \in {"done", "KeyError", "TypeError"}

\* The quantum at <<group, position>> reads an input that is not stored and
\* that no quantum has registered in the mapping `outs`.
LacksProducer(at, outs) ==
    LET t == qgraph[at[1]].taskDef
        q == qgraph[at[1]].quanta[at[2]]
    IN  /\ ~q.stored
        /\ \E n \in TaskInputs(t) : <<n, q.dataId>> \notin DOMAIN outs

\* Exactly one task group holding exactly one quantum.
OneGroupOneQuantum == Len(qgraph) = 1 /\ Len(qgraph[1].quanta) = 1

C2_EveryQuantumOnce ==
    tpc = "done" =>
        \A g \in DOMAIN qgraph : \A i \in DOMAIN qgraph[g].quanta :
            Cardinality({k \in DOMAIN yielded : yielded[k].quantum = <<g, i>>}) = 1

\* Task A (writes x) and task B (reads x, writes y), one quantum each.
ScenarioAB ==
    <<QuantumGraphTaskNodes("A", <<[dataId |-> 1, stored |-> FALSE]>>),
      QuantumGraphTaskNodes("B", <<[dataId |-> 1, stored |-> FALSE]>>)>>

\* C3: the k-th record carries quantumId k-1, and the traversal of the A -> B
\* scenario ends having emitted A with quantumId 0 and B with quantumId 1 and
\* dependencies {0}.
C3_SequentialIds ==
    /\ \A k \in DOMAIN yielded : yielded[k].quantumId = k - 1
    /\ (qgraph = ScenarioAB /\ TraverseEnded) =>
          yielded = <<[quantumId |-> 0, quantum |-> <<1, 1>>, taskDef |-> "A",
                       dependencies |-> {}],
                      [quantumId |-> 1, quantum |-> <<2, 1>>, taskDef |-> "B",
                       dependencies |-> {0}]>>

C5_SplitGraphTolerated ==
    /\ (OneGroupOneQuantum /\ LacksProducer(<<1, 1>>, <<>>) /\ tpc # "created") =>
          /\ tpc \in {"suspended", "done"}
          /\ Len(yielded) = 1
          /\ yielded[1].quantumId = 0
          /\ yielded[1].dependencies = {}
    /\ (~OneGroupOneQuantum /\ pos = 1
            /\ LacksProducer(Flatten(qgraph, order)[1], <<>>)) =>
          tpc = "KeyError"

\* ---------------------------------------------------------------------------
\* DatasetTypeNode._from_edges
\* ---------------------------------------------------------------------------
MaxWriteEdges == 2
MaxReadEdges == 2

\* key.name
DatasetTypeName == "calib"

\* The definitions (dimensions and storage class) that the registry or an
\* edge's task can give the dataset type.
DatasetTypes == {"D1", "D2"}

\* Labels of the tasks that write, and of the tasks that read.
WriterLabels == <<"w1", "w2", "w3", "w4">>
ReaderLabels == <<"r1", "r2", "r3", "r4">>

\* WriteEdge: the producing task and the definition it declares.
WriteEdges == [task_label : {WriterLabels[i] : i \in DOMAIN WriterLabels},
               dataset_type : DatasetTypes]

\* ReadEdge: the consuming task, the definition it declares, the component
\* it reads (None for the whole dataset) and its flags.
ReadEdges == [task_label : {ReaderLabels[i] : i \in DOMAIN ReaderLabels},
              dataset_type : DatasetTypes,
              component : {None, "psf"},
              defer_query_constraint : BOOLEAN,
              is_prerequisite : BOOLEAN]

\* DatasetTypeNode
DatasetTypeNode(dataset_type, is_initial_query_constraint, is_prerequisite) ==
    [dataset_type |-> dataset_type,
     is_initial_query_constraint |-> is_initial_query_constraint,
     is_prerequisite |-> is_prerequisite]

\* Registry.getDatasetType(name): the registered definition, or
\* MissingDatasetTypeError when the name is not registered.
GetDatasetType(registered) ==
    [raised |-> IF registered = None THEN "MissingDatasetTypeError" ELSE None,
     dataset_type |-> registered]

\* The lookup without the except clause.
LookupPropagates(registered) ==
    [raised |-> GetDatasetType(registered).raised,
     dataset_type |-> GetDatasetType(registered).dataset_type,
     is_registered |-> TRUE]

\* The try/except around registry.getDatasetType (lines 97-102).
Lookup(registered) ==
    IF GetDatasetType(registered).raised = "MissingDatasetTypeError"
    THEN [raised |-> None, dataset_type |-> None, is_registered |-> FALSE]
    ELSE [raised |-> None, dataset_type |-> GetDatasetType(registered).dataset_type,
          is_registered |-> TRUE]

\* The locals with is_prerequisite starting as False.
InitialLocalsNotPrerequisite(dataset_type) ==
    [raised |-> None, message |-> <<>>, producer |-> None,
     dataset_type |-> dataset_type, is_prerequisite |-> <<FALSE>>,
     is_initial_query_constraint |-> TRUE, consumers |-> <<>>, calls |-> <<>>]

\* The locals of _from_edges after the lookup: lines 109-111 and 124.
\* is_prerequisite is <<>> while it is None.  `calls` logs, for every read
\* edge resolved, its task and the consumers list it was handed.
InitialLocals(dataset_type) ==
    [raised |-> None, message |-> <<>>, producer |-> None,
     dataset_type |-> dataset_type, is_prerequisite |-> <<>>,
     is_initial_query_constraint |-> TRUE, consumers |-> <<>>, calls |-> <<>>]

\* WriteEdge._resolve_dataset_type: the task's definition when there is no
\* current one; otherwise the current definition, which the task's must be
\* compatible with.
WriteEdgeResolve(write_edge, current) ==
    IF current = None
    THEN [raised |-> None, dataset_type |-> write_edge.dataset_type]
    ELSE IF write_edge.dataset_type = current
         THEN [raised |-> None, dataset_type |-> current]
         ELSE [raised |-> "IncompatibleDatasetTypeError", dataset_type |-> current]

\* The write-edge step without the test for a second producer.
WriteEdgeStepNoDuplicateTest(st, write_edge) ==
    LET r == WriteEdgeResolve(write_edge, st.dataset_type)
    IN  IF r.raised # None
        THEN [st EXCEPT !.raised = r.raised, !.producer = write_edge.task_label]
        ELSE [st EXCEPT !.producer = write_edge.task_label,
                        !.dataset_type = r.dataset_type,
                        !.is_prerequisite = <<FALSE>>,
                        !.is_initial_query_constraint = FALSE]

\* The write-edge step without `is_prerequisite = False`.
WriteEdgeStepKeepsPrerequisite(st, write_edge) ==
    IF st.producer # None
    THEN [st EXCEPT !.raised = "DuplicateOutputError",
                    !.message = <<DatasetTypeName, write_edge.task_label, st.producer>>]
    ELSE LET r == WriteEdgeResolve(write_edge, st.dataset_type)
         IN  IF r.raised # None
             THEN [st EXCEPT !.raised = r.raised, !.producer = write_edge.task_label]
             ELSE [st EXCEPT !.producer = write_edge.task_label,
                             !.dataset_type = r.dataset_type,
                             !.is_initial_query_constraint = FALSE]

\* The write-edge step without `is_initial_query_constraint = False`.
WriteEdgeStepKeepsConstraint(st, write_edge) ==
    IF st.producer # None
    THEN [st EXCEPT !.raised = "DuplicateOutputError",
                    !.message = <<DatasetTypeName, write_edge.task_label, st.producer>>]
    ELSE LET r == WriteEdgeResolve(write_edge, st.dataset_type)
         IN  IF r.raised # None
             THEN [st EXCEPT !.raised = r.raised, !.producer = write_edge.task_label]
             ELSE [st EXCEPT !.producer = write_edge.task_label,
                             !.dataset_type = r.dataset_type,
                             !.is_prerequisite = <<FALSE>>]

\* One iteration of the loop over xgraph.in_edges (lines 113-122).
WriteEdgeStep(st, write_edge) ==
    IF st.producer # None
    THEN [st EXCEPT !.raised = "DuplicateOutputError",
                    !.message = <<DatasetTypeName, write_edge.task_label, st.producer>>]
    ELSE LET r == WriteEdgeResolve(write_edge, st.dataset_type)
         IN  IF r.raised # None
             THEN [st EXCEPT !.raised = r.raised, !.producer = write_edge.task_label]
             ELSE [st EXCEPT !.producer = write_edge.task_label,
                             !.dataset_type = r.dataset_type,
                             !.is_prerequisite = <<FALSE>>,
                             !.is_initial_query_constraint = FALSE]

RECURSIVE WriteLoop(_, _)
WriteLoop(edges, st) ==
    IF edges = <<>> \/ st.raised # None THEN st
    ELSE WriteLoop(Tail(edges), WriteEdgeStep(st, Head(edges)))

\* ReadEdge._resolve_dataset_type: the current definition (the task's own when
\* there is none), which the task's must be compatible with; the query
\* constraint survives only if this edge does not defer it; all consumers must
\* agree on prerequisite, and a produced dataset type is never one.
ReadEdgeResolve(read_edge, current, is_initial_query_constraint, is_prerequisite, is_registered, producer, consumers) ==
    [raised |->
        IF is_prerequisite # <<>> /\ is_prerequisite # <<read_edge.is_prerequisite>>
        THEN "ConnectionTypeConsistencyError"
        ELSE IF current # None /\ read_edge.dataset_type # current
             THEN "IncompatibleDatasetTypeError"
             ELSE None,
     dataset_type |-> IF current = None THEN read_edge.dataset_type ELSE current,
     is_initial_query_constraint |->
        is_initial_query_constraint /\ ~read_edge.defer_query_constraint,
     is_prerequisite |-> <<read_edge.is_prerequisite>>]

\* One iteration of the loop over read_edges (lines 128-138).
ReadEdgeStep(st, read_edge, is_registered) ==
    LET r == ReadEdgeResolve(read_edge, st.dataset_type, st.is_initial_query_constraint,
                             st.is_prerequisite, is_registered, st.producer,
                             st.consumers)
        called == Append(st.calls,
                         [task_label |-> read_edge.task_label, consumers |-> st.consumers])
    IN  IF r.raised # None
        THEN [st EXCEPT !.raised = r.raised, !.calls = called]
        ELSE [st EXCEPT !.dataset_type = r.dataset_type,
                        !.is_initial_query_constraint = r.is_initial_query_constraint,
                        !.is_prerequisite = r.is_prerequisite,
                        !.consumers = Append(st.consumers, read_edge.task_label),
                        !.calls = called]

RECURSIVE ReadLoop(_, _, _)
ReadLoop(edges, st, is_registered) ==
    IF edges = <<>> \/ st.raised # None THEN st
    ELSE ReadLoop(Tail(edges), ReadEdgeStep(st, Head(edges), is_registered), is_registered)

ReadsParent(read_edge) == read_edge.component = None

ReadsComponent(read_edge) == read_edge.component # None

\* The read edges left in the order of the graph.
Unsorted(read_edges) == read_edges

\* read_edges.sort(key=lambda read_edge: read_edge.component is not None):
\* a stable sort on a two-valued key.
SortReadEdges(read_edges) ==
    SelectSeq(read_edges, ReadsParent) \o SelectSeq(read_edges, ReadsComponent)

\* The memo test with the comparison of the definitions left out.
MemoHitAnyPrevious(prev, dataset_type) == prev # <<>>

\* previous is not None and previous.dataset_type == dataset_type
MemoHit(prev, dataset_type) == prev # <<>> /\ prev[1].dataset_type = dataset_type

\* What a call of _from_edges returns or raises.
Returned(node, reused, calls) ==
    [raised |-> None, message |-> <<>>, node |-> <<node>>, reused |-> reused,
     calls |-> calls]

Raised(error, message, calls) ==
    [raised |-> error, message |-> message, node |-> <<>>, reused |-> FALSE,
     calls |-> calls]

\* DatasetTypeNode._from_edges(key, xgraph, registry, previous); `registered`
\* is the definition the registry holds for key.name, None when it holds none.
FromEdges(writes, reads, registered, prev) ==
    LET looked == Lookup(registered)
    IN  IF looked.raised # None
        THEN Raised(looked.raised, <<>>, <<>>)
        ELSE IF MemoHit(prev, looked.dataset_type)
        THEN Returned(prev[1], TRUE, <<>>)
        ELSE LET w == WriteLoop(writes, InitialLocals(looked.dataset_type))
                 r == ReadLoop(SortReadEdges(reads), w, looked.is_registered)
             IN  IF r.raised # None
                 THEN Raised(r.raised, r.message, r.calls)
                 ELSE IF r.dataset_type = None \/ r.is_prerequisite = <<>>
                      THEN Raised("AssertionError", <<>>, r.calls)
                      ELSE Returned(DatasetTypeNode(r.dataset_type,
                                        r.is_initial_query_constraint,
                                        r.is_prerequisite[1]),
                                    FALSE, r.calls)

\* The write edges of the tasks w1, w2, ... declaring the definitions ds.
MkWriteEdges(ds) ==
    [i \in DOMAIN ds |-> [task_label |-> WriterLabels[i], dataset_type |-> ds[i]]]

ReadAttributes ==
    [dataset_type : DatasetTypes, component : {None, "psf"},
     defer_query_constraint : BOOLEAN, is_prerequisite : BOOLEAN]

\* The read edges of the tasks r1, r2, ... with the attributes as.
MkReadEdges(as) ==
    [i \in DOMAIN as |->
        [task_label |-> ReaderLabels[i], dataset_type |-> as[i].dataset_type,
         component |-> as[i].component,
         defer_query_constraint |-> as[i].defer_query_constraint,
         is_prerequisite |-> as[i].is_prerequisite]]

DatasetTypeNodes ==
    {DatasetTypeNode(d, q, p) : d \in DatasetTypes, q \in BOOLEAN, p \in BOOLEAN}

\* --- _from_edges as a function: one call on any edges, any lookup result and
\* --- any previous node.
FromEdgesInit ==
    /\ TraverseIdle
    /\ LayoutIdle
    /\ MergeIdle
    /\ TesterIdle
    /\ AnnotatorIdle
    /\ \E nw \in 0..MaxWriteEdges : \E ds \in [1..nw -> DatasetTypes] :
          in_edges = MkWriteEdges(ds)
    /\ \E nr \in 0..MaxReadEdges : \E as \in [1..nr -> ReadAttributes] :
          out_edges = MkReadEdges(as)
    /\ registry \in {None} \cup DatasetTypes
    /\ previous \in {<<>>} \cup {<<n>> : n \in DatasetTypeNodes}
    /\ resolved = <<>>
    /\ outcome = <<>>

FromEdgesCall ==
    /\ outcome = <<>>
    /\ outcome' = <<FromEdges(in_edges, out_edges, registry, previous)>>
    /\ UNCHANGED <<in_edges, out_edges, registry, previous, resolved, tvars, lvars, mvars, pvars, avars>>

FromEdgesSpec == FromEdgesInit /\ [][FromEdgesCall]_vars

\* --- The dataset-type vertex inside a PipelineGraph: edges come and go, the
\* --- registry changes, and resolve() re-resolves the vertex, handing
\* --- _from_edges the node it stored before.
\* Adding or removing an edge clears the vertex's resolution.
EdgesChanged ==
    /\ previous' = <<>>
    /\ resolved' = <<>>
    /\ outcome' = <<>>
    /\ UNCHANGED <<registry, tvars, lvars, mvars, pvars, avars>>

AddWriteEdge ==
    /\ Len(in_edges) < MaxWriteEdges
    /\ \E d \in DatasetTypes :
          in_edges' = Append(in_edges, [task_label |-> WriterLabels[Len(in_edges) + 1],
                                        dataset_type |-> d])
    /\ UNCHANGED out_edges
    /\ EdgesChanged

AddReadEdge ==
    /\ Len(out_edges) < MaxReadEdges
    /\ \E a \in ReadAttributes :
          out_edges' = Append(out_edges,
                [task_label |-> ReaderLabels[Len(out_edges) + 1],
                 dataset_type |-> a.dataset_type, component |-> a.component,
                 defer_query_constraint |-> a.defer_query_constraint,
                 is_prerequisite |-> a.is_prerequisite])
    /\ UNCHANGED in_edges
    /\ EdgesChanged

\* Every edge change clears the resolution, so which edge goes does not
\* matter to what follows: the newest one is removed.
RemoveWriteEdge ==
    /\ in_edges # <<>>
    /\ in_edges' = SubSeq(in_edges, 1, Len(in_edges) - 1)
    /\ UNCHANGED out_edges
    /\ EdgesChanged

RemoveReadEdge ==
    /\ out_edges # <<>>
    /\ out_edges' = SubSeq(out_edges, 1, Len(out_edges) - 1)
    /\ UNCHANGED in_edges
    /\ EdgesChanged

\* The dataset type is registered, unregistered or registered anew.
RegistryChange ==
    /\ \E d \in ({None} \cup DatasetTypes) \ {registry} : registry' = d
    /\ outcome' = <<>>
    /\ UNCHANGED <<in_edges, out_edges, previous, resolved, tvars, lvars, mvars, pvars, avars>>

\* resolve(): the node _from_edges returns is stored on the vertex; an
\* exception leaves the vertex as it was.
Resolve ==
    LET got == FromEdges(in_edges, out_edges, registry, previous)
    IN  /\ outcome' = <<got>>
        /\ previous' = IF got.raised = None THEN got.node ELSE previous
        /\ resolved' = IF got.raised = None /\ ~got.reused
                       THEN <<[in_edges |-> in_edges, out_edges |-> out_edges,
                               registry |-> registry]>>
                       ELSE resolved
        /\ UNCHANGED <<in_edges, out_edges, registry, tvars, lvars, mvars, pvars, avars>>

PipelineGraphInit ==
    /\ TraverseIdle
    /\ LayoutIdle
    /\ MergeIdle
    /\ TesterIdle
    /\ AnnotatorIdle
    /\ in_edges = <<>>
    /\ out_edges = <<>>
    /\ registry = None
    /\ previous = <<>>
    /\ resolved = <<>>
    /\ outcome = <<>>

PipelineGraphNext ==
    \/ AddWriteEdge
    \/ AddReadEdge
    \/ RemoveWriteEdge
    \/ RemoveReadEdge
    \/ RegistryChange
    \/ Resolve

PipelineGraphSpec == PipelineGraphInit /\ [][PipelineGraphNext]_vars

\* ---------------------------------------------------------------------------
\* Claims about DatasetTypeNode._from_edges
\* ---------------------------------------------------------------------------
\* The last call returned a node.
NodeReturned == outcome # <<>> /\ outcome[1].raised = None

\* The supplied previous node carries the definition the lookup returned.
PreviousMatchesLookup == previous # <<>> /\ previous[1].dataset_type = registry

\* The call failed with the duplicate-output error that names the dataset
\* type and the first two producers.
DuplicateOutputRaised ==
    /\ outcome[1].raised = "DuplicateOutputError"
    /\ outcome[1].message = <<DatasetTypeName, in_edges[2].task_label, in_edges[1].task_label>>
    /\ outcome[1].node = <<>>

\* C6 as stated: with more than one write edge every call fails with
\* DuplicateOutputError naming the dataset type and both producers, whatever
\* previous node is supplied.
C6_DuplicateAlwaysRaises ==
    (outcome # <<>> /\ Len(in_edges) >= 2) => DuplicateOutputRaised

\* C6 amended: with more than one write edge the call fails with
\* DuplicateOutputError naming the dataset type and both producers, unless the
\* supplied previous node carries the looked-up definition (it is then
\* returned, the edges unread) or the first write edge is incompatible with
\* the registered definition (its error comes first).
C6_DuplicateRaisesUnlessMemo ==
    (outcome # <<>> /\ Len(in_edges) >= 2) =>
        /\ PreviousMatchesLookup =>
              (outcome[1].raised = None /\ outcome[1].node = previous)
        /\ (~PreviousMatchesLookup /\ registry \in {None, in_edges[1].dataset_type}) =>
              DuplicateOutputRaised
        /\ (~PreviousMatchesLookup /\ registry \notin {None, in_edges[1].dataset_type}) =>
              (outcome[1].raised = "IncompatibleDatasetTypeError" /\ outcome[1].node = <<>>)

\* C6 witness: the duplicate-output error of a call that was handed a
\* previous node and found the type registered.
C6_Witness ==
    /\ outcome # <<>>
    /\ Len(in_edges) >= 2
    /\ previous # <<>>
    /\ registry # None
    /\ outcome[1].raised = "DuplicateOutputError"

\* C7: a returned node is a prerequisite only if the vertex has no write edge.
C7_PrerequisiteOnlyWithoutProducer ==
    (NodeReturned /\ outcome[1].node[1].is_prerequisite) => in_edges = <<>>

\* C7 witness: a prerequisite node returned for a vertex with two consumers.
C7_Witness ==
    /\ NodeReturned
    /\ outcome[1].node[1].is_prerequisite
    /\ Len(out_edges) >= 2

\* C8: a returned node is an initial query constraint only if the vertex has
\* no write edge and no read edge that defers the constraint.
C8_QueryConstraintOnlyIfNoneDefers ==
    (NodeReturned /\ outcome[1].node[1].is_initial_query_constraint) =>
        /\ in_edges = <<>>
        /\ \A i \in DOMAIN out_edges : ~out_edges[i].defer_query_constraint

\* C8 witness: a node without the constraint because one of two consumers,
\* the one processed first, defers it.
C8_Witness ==
    /\ NodeReturned
    /\ in_edges = <<>>
    /\ Len(out_edges) = 2
    /\ out_edges[1].defer_query_constraint /\ out_edges[1].component = None
    /\ ~out_edges[2].defer_query_constraint
    /\ ~outcome[1].node[1].is_initial_query_constraint

\* The edges of the vertex are those `previous` was built from.
EdgesAsResolved ==
    /\ resolved # <<>>
    /\ resolved[1].in_edges = in_edges
    /\ resolved[1].out_edges = out_edges

ExpectedNode ==
    DatasetTypeNode(
        IF registry # None THEN registry
        ELSE IF in_edges # <<>> THEN in_edges[1].dataset_type
        ELSE out_edges[1].dataset_type,
        in_edges = <<>> /\ \A i \in DOMAIN out_edges : ~out_edges[i].defer_query_constraint,
        in_edges = <<>> /\ \A i \in DOMAIN out_edges : out_edges[i].is_prerequisite)

EdgesAgree ==
    /\ Len(in_edges) <= 1
    /\ \A i \in DOMAIN in_edges, j \in DOMAIN out_edges :
          in_edges[i].dataset_type = out_edges[j].dataset_type /\ ~out_edges[j].is_prerequisite
    /\ \A i, j \in DOMAIN out_edges :
          /\ out_edges[i].dataset_type = out_edges[j].dataset_type
          /\ out_edges[i].is_prerequisite = out_edges[j].is_prerequisite

\* C10: when the type is not registered the call raises no error for that:
\* if the vertex has an edge and its edges agree, a node is returned, and a
\* returned node carries the definition the producer or a consumer declares.
C10_UnregisteredTolerated ==
    (outcome # <<>> /\ registry = None) =>
        /\ outcome[1].raised # "MissingDatasetTypeError"
        /\ (EdgesAgree /\ Len(in_edges) + Len(out_edges) >= 1) => outcome[1].raised = None
        /\ outcome[1].raised = None =>
              /\ ~outcome[1].reused
              /\ outcome[1].node[1].dataset_type = ExpectedNode.dataset_type
              /\ \A i \in DOMAIN in_edges :
                    in_edges[i].dataset_type = outcome[1].node[1].dataset_type
              /\ \A i \in DOMAIN out_edges :
                    out_edges[i].dataset_type = outcome[1].node[1].dataset_type

\* C10 witness: an unregistered, unproduced type resolved from its consumers.
C10_Witness ==
    /\ NodeReturned
    /\ registry = None
    /\ in_edges = <<>>
    /\ Len(out_edges) >= 2

\* ---------------------------------------------------------------------------
\* Layout (pipeline_graph/visualization/_layout.py)
\* ---------------------------------------------------------------------------
MaxNodes == 4

\* The directed acyclic graphs on the nodes 1..n whose edges go from a lower
\* to a higher node: every DAG of at most MaxNodes nodes, up to the names of
\* its nodes.
IsDAG(g) ==
    \E n \in 0..MaxNodes :
        \E edges \in SUBSET {e \in (1..n) \X (1..n) : e[1] < e[2]} :
            g = DiGraph(1..n, edges)

\* A root with three successors, one of them on a longest path, the others
\* with two and with one outgoing edge.
FanOut ==
    DiGraph(1..6, {<<1, 2>>, <<1, 3>>, <<1, 4>>, <<2, 5>>, <<3, 5>>, <<3, 6>>, <<4, 5>>})

\* The graphs a Layout is made of.
IsLayoutInput(g) == IsDAG(g) \/ g = FanOut

successors(g, node) == {v \in g.nodes : <<node, v>> \in g.edges}

predecessors(g, node) == {u \in g.nodes : <<u, node>> \in g.edges}

in_degree(g, node) == Cardinality(predecessors(g, node))

out_degree(g, node) == Cardinality(successors(g, node))

\* graph.subgraph(nodes)
subgraph(g, nodes) ==
    DiGraph(g.nodes \cap nodes, {e \in g.edges : e[1] \in nodes /\ e[2] \in nodes})

\* graph.remove_node(node): the node goes with its edges.
remove_node(g, node) == subgraph(g, g.nodes \ {node})

\* networkx.algorithms.dag.ancestors
RECURSIVE ancestors(_, _)
ancestors(g, node) ==
    predecessors(g, node) \cup UNION {ancestors(g, u) : u \in predecessors(g, node)}

RECURSIVE Connected(_, _)
Connected(g, nodes) ==
    LET more == nodes \cup {v \in g.nodes :
                    \E u \in nodes : <<u, v>> \in g.edges \/ <<v, u>> \in g.edges}
    IN  IF more = nodes THEN nodes ELSE Connected(g, more)

\* networkx.algorithms.components.weakly_connected_components
weakly_connected_components(g) == {Connected(g, {node}) : node \in g.nodes}

\* The paths of g that end at node and start at a node without predecessor.
RECURSIVE PathsTo(_, _)
PathsTo(g, node) ==
    IF predecessors(g, node) = {} THEN {<<node>>}
    ELSE {Append(p, node) : p \in UNION {PathsTo(g, u) : u \in predecessors(g, node)}}

\* networkx.algorithms.dag.dag_longest_path: a longest path of g.  Which one
\* of several networkx returns depends on the order the nodes and edges were
\* inserted in, which the graph as a pair of sets leaves open.
dag_longest_path(g) ==
    LET paths == UNION {PathsTo(g, node) : node \in g.nodes}
    IN  IF paths = {} THEN {<<>>}
        ELSE {p \in paths : \A q \in paths : Len(q) <= Len(p)}

\* --- Layout._add_unblocked_node --------------------------------------------
\* Lines 62-66: the node is taken out of every active column's endpoints and
\* the columns left without endpoints are deleted.
HasEndpoints(column) == column.endpoints # {}

TerminateEdges(columns, node) ==
    SelectSeq([i \in DOMAIN columns |->
                  [columns[i] EXCEPT !.endpoints = columns[i].endpoints \ {node}]],
              HasEndpoints)

ColumnsOf(columns) == {columns[i].x : i \in DOMAIN columns}

\* The loop of lines 67-69 without its test: always column 0.
FirstColumnAlways(columns) == 0

\* The loop of lines 67-69 running past every active column and one more.
ColumnPastAll(columns) == Len(columns) + 1

\* Lines 67-69: the first column that is not active.
FirstFreeColumn(columns) ==
    CHOOSE node_x \in 0..Len(columns) :
        /\ node_x \notin ColumnsOf(columns)
        /\ \A x \in 0..(node_x - 1) : x \in ColumnsOf(columns)

Max(a, b) == IF a >= b THEN a ELSE b

\* Lines 62-76, after the assertion: the new values of _active_columns,
\* _locations, x_max and _todo_graph.
AddUnblockedNode(node) ==
    LET columns  == TerminateEdges(active_columns, node)
        node_x   == FirstFreeColumn(columns)
        outgoing == successors(todo_graph, node)
    IN  /\ locations' = Append(locations, [node |-> node, x |-> node_x])
        /\ x_max' = Max(node_x, x_max)
        /\ todo_graph' = remove_node(todo_graph, node)
        /\ active_columns' = IF outgoing # {}
                             THEN Append(columns, [x |-> node_x, endpoints |-> outgoing])
                             ELSE columns

\* The assertion of line 61.
Unblocked(node) == node \in todo_graph.nodes /\ in_degree(todo_graph, node) = 0

\* The assertion of line 61 left out.
UnblockedNotAsserted(node) == TRUE

\* _add_unblocked_node(node); `after` is the stack the caller goes on with.
add_unblocked_node(node, after) ==
    IF Unblocked(node)
    THEN /\ AddUnblockedNode(node)
         /\ stack' = after
         /\ UNCHANGED lpc
    ELSE /\ lpc' = "AssertionError: str(node)"
         /\ stack' = <<>>
         /\ UNCHANGED <<active_columns, locations, x_max, todo_graph>>

\* --- The loops in progress ---------------------------------------------------
\* The for loop of _add_connected_graph over the rest of a longest path; its
\* body stands before _add_active_unblocked ("unblock") or after it ("add").
PathLoop(path, phase) ==
    [kind |-> "path", path |-> path, phase |-> phase, avoid |-> 0,
     todo |-> <<>>, unblocked |-> {}]

\* The for loop of lines 84-89 over the rest of the list of active endpoints,
\* column by column.
ScanLoop(avoid, todo, unblocked) ==
    [kind |-> "scan", path |-> <<>>, phase |-> "", avoid |-> avoid,
     todo |-> todo, unblocked |-> unblocked]

\* The for loop of lines 95-96 over the rest of the sorted unblocked nodes.
SortedLoop(avoid, nodes) ==
    [kind |-> "sorted", path |-> nodes, phase |-> "", avoid |-> avoid,
     todo |-> <<>>, unblocked |-> {}]

NonEmpty(set) == set # {}

\* list(itertools.chain.from_iterable(self._active_columns.values())): the
\* endpoints column by column; the order inside a column is the set's.
ActiveEndpoints(columns) ==
    SelectSeq([i \in DOMAIN columns |-> columns[i].endpoints], NonEmpty)

Top == stack[Len(stack)]

Below == SubSeq(stack, 1, Len(stack) - 1)

Building == lpc = "building" /\ stack # <<>>

\* The unblocked nodes in any order.
InAnyOrder(nodes) ==
    {s \in [1..Cardinality(nodes) -> nodes] : \A i, j \in DOMAIN s : i # j => s[i] # s[j]}

\* sorted(unblocked, key=out_degree, reverse=True): the orders of `nodes`
\* by decreasing out-degree.
SortedByOutDegree(nodes) ==
    {s \in [1..Cardinality(nodes) -> nodes] :
        /\ \A i, j \in DOMAIN s : i # j => s[i] # s[j]
        /\ \A i, j \in DOMAIN s :
              i < j => out_degree(todo_graph, s[i]) >= out_degree(todo_graph, s[j])}

\* --- Layout.__init__ -----------------------------------------------------------
\* Line 54-55: the next weakly connected component is handed to
\* _add_connected_graph, which takes a longest path of it (line 99).
AddComponent ==
    /\ lpc = "building" /\ stack = <<>>
    /\ \E component \in components :
          /\ components' = components \ {component}
          /\ \E path \in dag_longest_path(subgraph(self_graph, component)) :
                stack' = <<PathLoop(path, "unblock")>>
    /\ UNCHANGED <<self_graph, todo_graph, active_columns, locations, x_max, lpc,
                   active_edges, rows, tvars, rvars, mvars, pvars, avars>>

\* Lines 56-58: the final assertion.
Finish ==
    /\ lpc = "building" /\ stack = <<>> /\ components = {}
    /\ lpc' = IF todo_graph.nodes = {} THEN "built"
              ELSE "AssertionError: list(self._todo_graph)"
    /\ UNCHANGED <<self_graph, todo_graph, active_columns, locations, x_max, components,
                   stack, active_edges, rows, tvars, rvars, mvars, pvars, avars>>

\* --- Layout._add_connected_graph -------------------------------------------
\* Line 102: _add_active_unblocked(node) is entered; its first pass lists the
\* active endpoints (line 84).
EnterAddActiveUnblocked ==
    /\ Building /\ Top.kind = "path" /\ Top.path # <<>> /\ Top.phase = "unblock"
    /\ stack' = Below \o <<PathLoop(Top.path, "add"),
                           ScanLoop(Head(Top.path), ActiveEndpoints(active_columns), {})>>
    /\ UNCHANGED <<self_graph, todo_graph, active_columns, locations, x_max, components,
                   lpc, active_edges, rows, tvars, rvars, mvars, pvars, avars>>

\* Lines 103-111: the node's remaining ancestors are added by a recursive
\* call on them and the node; without any, the node itself is added.
AddPathNode ==
    /\ Building /\ Top.kind = "path" /\ Top.path # <<>> /\ Top.phase = "add"
    /\ LET node == Head(Top.path)
           rest == Below \o <<PathLoop(Tail(Top.path), "unblock")>>
       IN  IF node \notin todo_graph.nodes
           THEN /\ lpc' = "NetworkXError"
                /\ stack' = <<>>
                /\ UNCHANGED <<active_columns, locations, x_max, todo_graph>>
           ELSE IF ancestors(todo_graph, node) # {}
           THEN /\ \E path \in dag_longest_path(
                           subgraph(todo_graph, ancestors(todo_graph, node) \cup {node})) :
                      stack' = rest \o <<PathLoop(path, "unblock")>>
                /\ UNCHANGED <<active_columns, locations, x_max, todo_graph, lpc>>
           ELSE add_unblocked_node(node, rest)
    /\ UNCHANGED <<self_graph, components, active_edges, rows, tvars, rvars, mvars, pvars, avars>>

\* The for loop of line 99 is exhausted: _add_connected_graph returns.
ReturnFromAddConnectedGraph ==
    /\ Building /\ Top.kind = "path" /\ Top.path = <<>>
    /\ stack' = Below
    /\ UNCHANGED <<self_graph, todo_graph, active_columns, locations, x_max, components,
                   lpc, active_edges, rows, tvars, rvars, mvars, pvars, avars>>

\* --- Layout._add_active_unblocked ------------------------------------------
\* The test of line 85 with the in-degree left out.
EndpointInTodo(node, avoid) == node # avoid /\ node \in todo_graph.nodes

\* The test of line 85.
EndpointUnblocked(node, avoid) ==
    node # avoid /\ node \in todo_graph.nodes /\ in_degree(todo_graph, node) = 0

\* Lines 84-89: the next listed endpoint; an unblocked one without outgoing
\* edges is added at once, one with outgoing edges is remembered.
ScanEndpoint ==
    /\ Building /\ Top.kind = "scan" /\ Top.todo # <<>>
    /\ \E node \in Head(Top.todo) :
          LET left == Head(Top.todo) \ {node}
              todo == IF left = {} THEN Tail(Top.todo) ELSE <<left>> \o Tail(Top.todo)
          IN  IF EndpointUnblocked(node, Top.avoid)
              THEN IF out_degree(todo_graph, node) = 0
                   THEN add_unblocked_node(node,
                            Below \o <<ScanLoop(Top.avoid, todo, Top.unblocked)>>)
                   ELSE /\ stack' = Below \o
                              <<ScanLoop(Top.avoid, todo, Top.unblocked \cup {node})>>
                        /\ UNCHANGED <<active_columns, locations, x_max, todo_graph, lpc>>
              ELSE /\ stack' = Below \o <<ScanLoop(Top.avoid, todo, Top.unblocked)>>
                   /\ UNCHANGED <<active_columns, locations, x_max, todo_graph, lpc>>
    /\ UNCHANGED <<self_graph, components, active_edges, rows, tvars, rvars, mvars, pvars, avars>>

\* Lines 90-95: the list is exhausted; return if nothing was remembered,
\* otherwise sort what was.
EndScan ==
    /\ Building /\ Top.kind = "scan" /\ Top.todo = <<>>
    /\ IF Top.unblocked = {}
       THEN stack' = Below
       ELSE \E nodes \in SortedByOutDegree(Top.unblocked) :
                stack' = Below \o <<SortedLoop(Top.avoid, nodes)>>
    /\ UNCHANGED <<self_graph, todo_graph, active_columns, locations, x_max, components,
                   lpc, active_edges, rows, tvars, rvars, mvars, pvars, avars>>

\* Lines 95-96: the next of the sorted unblocked nodes is added; after the
\* last one the while loop starts over (line 79).
AddSorted ==
    /\ Building /\ Top.kind = "sorted"
    /\ IF Top.path # <<>>
       THEN add_unblocked_node(Head(Top.path),
                Below \o <<SortedLoop(Top.avoid, Tail(Top.path))>>)
       ELSE /\ stack' = Below \o
                  <<ScanLoop(Top.avoid, ActiveEndpoints(active_columns), {})>>
            /\ UNCHANGED <<active_columns, locations, x_max, todo_graph, lpc>>
    /\ UNCHANGED <<self_graph, components, active_edges, rows, tvars, rvars, mvars, pvars, avars>>

\* --- Layout.__iter__ -----------------------------------------------------------
\* A LayoutRow as constructed in line 123, nothing appended to its lists.
RowWithoutEntries(node, x) ==
    [node |-> node, x |-> x, terminating |-> <<>>, continuing |-> <<>>]

\* Lines 123-133: the row of `node`.  active_edges[i] is the entry of the
\* i-th node of _locations; an origin whose destinations hold `node` is
\* terminating, one with destinations left besides `node` is continuing.
RowEntries(node, x) ==
    LET dest(i) == active_edges[i] \ {node}
        Terminates(i) == node \in active_edges[i]
        Continues(i) == dest(i) # {}
        Before(a, b) == a.x < b.x \/ (a.x = b.x /\ a.origin < b.origin)
        entry(i) == [x |-> x_max - locations[i].x, origin |-> locations[i].node,
                     destinations |-> dest(i)]
        indices == [i \in DOMAIN active_edges |-> i]
    IN  [node |-> node, x |-> x,
         terminating |-> SortSeq([k \in DOMAIN SelectSeq(indices, Terminates) |->
                                     [x |-> entry(SelectSeq(indices, Terminates)[k]).x,
                                      origin |-> entry(SelectSeq(indices, Terminates)[k]).origin]],
                                 Before),
         continuing |-> SortSeq([k \in DOMAIN SelectSeq(indices, Continues) |->
                                     entry(SelectSeq(indices, Continues)[k])],
                                Before)]

\* One next() on the iterator: lines 122-135 for the next node of _locations.
IterNext ==
    /\ lpc = "built"
    /\ Len(rows) < Len(locations)
    /\ LET node   == locations[Len(rows) + 1].node
           node_x == locations[Len(rows) + 1].x
       IN  /\ rows' = Append(rows, RowEntries(node, x_max - node_x))
           /\ active_edges' = Append([i \in DOMAIN active_edges |-> active_edges[i] \ {node}],
                                     successors(self_graph, node))
    /\ UNCHANGED <<self_graph, todo_graph, active_columns, locations, x_max, components,
                   stack, lpc, tvars, rvars, mvars, pvars, avars>>

\* Layout(graph), up to line 53.
LayoutInit ==
    /\ TraverseIdle
    /\ ResolverIdle
    /\ MergeIdle
    /\ TesterIdle
    /\ AnnotatorIdle
    /\ IsLayoutInput(self_graph)
    /\ todo_graph = self_graph
    /\ active_columns = <<>>
    /\ locations = <<>>
    /\ x_max = 0
    /\ components = weakly_connected_components(self_graph)
    /\ stack = <<>>
    /\ lpc = "building"
    /\ active_edges = <<>>
    /\ rows = <<>>

LayoutNext ==
    \/ AddComponent
    \/ Finish
    \/ EnterAddActiveUnblocked
    \/ AddPathNode
    \/ ReturnFromAddConnectedGraph
    \/ ScanEndpoint
    \/ EndScan
    \/ AddSorted
    \/ IterNext

LayoutSpec == LayoutInit /\ [][LayoutNext]_vars

\* ---------------------------------------------------------------------------
\* merge_graph_intermediates, merge_graph_input_trees, merge_graph_output_trees
\* (pipeline_graph/visualization/_merge.py)
\* ---------------------------------------------------------------------------
MaxDepth == 2

\* A NodeKey.  Every node of a graph is a record of the keys it stands for
\* and of how deep MergedNodeKeys are nested in it: 0 for a NodeKey.
NodeKey(k) == [keys |-> {k}, nest |-> 0]

Greatest(S) == CHOOSE x \in S : \A y \in S : y <= x

\* MergedNodeKey(frozenset(members))
MergedNodeKey(members) ==
    [keys |-> UNION {m.keys : m \in members},
     nest |-> 1 + Greatest({m.nest : m \in members})]

\* The state (attribute dict) of a node.
NodeState(dimensions, storage_class_name, task_class_name) ==
    [dimensions |-> dimensions, storage_class_name |-> storage_class_name,
     task_class_name |-> task_class_name]

\* The state of a node that add_edge had to create.
NoState == NodeState("missing", None, None)

\* The networkx.DiGraph with its node states.
XGraph(nodes, edges, state) == [nodes |-> nodes, edges |-> edges, state |-> state]

\* xgraph.add_node(node, **state)
add_node(g, node, state) ==
    XGraph(g.nodes \cup {node}, g.edges,
           [n \in g.nodes \cup {node} |-> IF n = node THEN state ELSE g.state[n]])

\* xgraph.add_edge / xgraph.add_edges_from: nodes that are missing are created.
add_edges_from(g, edges) ==
    LET ends == {e[1] : e \in edges} \cup {e[2] : e \in edges}
    IN  XGraph(g.nodes \cup ends, g.edges \cup edges,
               [n \in g.nodes \cup ends |-> IF n \in g.nodes THEN g.state[n] ELSE NoState])

\* remove_nodes_from removing nothing.
remove_no_nodes(g, nodes) == g

\* xgraph.remove_nodes_from(nodes)
remove_nodes_from(g, nodes) ==
    XGraph(g.nodes \ nodes,
           {e \in g.edges : e[1] \notin nodes /\ e[2] \notin nodes},
           [n \in g.nodes \ nodes |-> g.state[n]])

\* xgraph.reverse(copy=False)
reverse(g) == XGraph(g.nodes, {<<e[2], e[1]>> : e \in g.edges}, g.state)

\* xgraph.in_edges(node), xgraph.out_edges(node)
in_edges_of(g, node) == {e \in g.edges : e[2] = node}

out_edges_of(g, node) == {e \in g.edges : e[1] = node}

\* replacements.get(node, node) answering with a replacement of another node.
ReplacedByAny(repl, node) ==
    IF DOMAIN repl = {} THEN node ELSE repl[CHOOSE k \in DOMAIN repl : TRUE]

\* replacements.get(node, node)
Replaced(repl, node) == IF node \in DOMAIN repl THEN repl[node] ELSE node

\* _MergeKey.from_node_state; the attribute the options do not ask for is None.
from_node_state(state, parents, children, opts) ==
    [parents |-> parents,
     dimensions |-> IF opts.dimensions THEN state.dimensions ELSE None,
     storage_class_name |->
        IF opts.storage_classes THEN state.storage_class_name ELSE None,
     task_class_name |-> IF opts.task_classes THEN state.task_class_name ELSE None,
     children |-> children]

\* A group: an item of a dict from merge key to set of members.
Group(merge_key, members) == [merge_key |-> merge_key, members |-> members]

Mergeable(group_items) == {grp \in group_items : Cardinality(grp.members) >= 2}

\* --- merge_graph_intermediates ----------------------------------------------
IntermediateKey(g, node, opts) ==
    from_node_state(g.state[node], predecessors(g, node), successors(g, node), opts)

\* The test of line 105 with the children left out.
HasParents(merge_key) == merge_key.parents # {}

\* The test of line 105.
HasParentsAndChildren(merge_key) == merge_key.parents # {} /\ merge_key.children # {}

\* Lines 97-106: the groups of the nodes with parents and children.
IntermediateGroups(g, opts) ==
    LET keys == {k \in {IntermediateKey(g, n, opts) : n \in g.nodes} :
                    HasParentsAndChildren(k)}
    IN  {Group(k, {n \in g.nodes : IntermediateKey(g, n, opts) = k}) : k \in keys}

\* Lines 111-124 for one group: the graph and the replacements afterwards.
MergeIntermediateGroup(g, repl, grp) ==
    LET new_node_key == MergedNodeKey(grp.members)
        added == add_node(g, new_node_key,
                          NodeState(grp.merge_key.dimensions,
                                    grp.merge_key.storage_class_name,
                                    grp.merge_key.task_class_name))
        edged == add_edges_from(added,
                    {<<Replaced(repl, parent), new_node_key>> :
                        parent \in grp.merge_key.parents}
                    \cup {<<new_node_key, Replaced(repl, child)>> :
                        child \in grp.merge_key.children})
    IN  [xgraph |-> remove_nodes_from(edged, grp.members),
         replacements |-> [n \in DOMAIN repl \cup grp.members |->
                              IF n \in grp.members THEN new_node_key ELSE repl[n]]]

\* --- _make_tree_merge_groups ---------------------------------------------------
\* The test of line 174 letting no level past the first grow a next one.
GrowsOnlyBelowDepth(len_result, depth) == len_result < depth

\* The test of line 174.
Grows(len_result, depth) == len_result <= depth

\* One pass of the while loop of line 151 and the passes after it: the
\* results of the depths from len_result on.  current_candidates maps each
\* candidate to the merge keys of the trees under it.
RECURSIVE TreeLevels(_, _, _, _, _)
TreeLevels(g, opts, depth, current_candidates, len_result) ==
    IF DOMAIN current_candidates = {} THEN <<>>
    ELSE LET key(n) == from_node_state(g.state[n], successors(g, n),
                                       current_candidates[n], opts)
             result_for_depth ==
                 {Group(k, {n \in DOMAIN current_candidates : key(n) = k}) :
                     k \in {key(n) : n \in DOMAIN current_candidates}}
             single == {n \in DOMAIN current_candidates :
                           Grows(len_result, depth) /\ Cardinality(key(n).parents) = 1}
             nontrees == UNION {key(n).parents :
                                   n \in {m \in DOMAIN current_candidates :
                                             Grows(len_result, depth) /\ m \notin single}}
             roots == UNION {key(n).parents : n \in single} \ nontrees
             next_candidates ==
                 [parent \in roots |->
                     {[key(n) EXCEPT !.parents = {}] :
                         n \in {m \in single : key(m).parents = {parent}}}]
         IN  <<result_for_depth>> \o
             TreeLevels(g, opts, depth, next_candidates, len_result + 1)

\* next(topological_generations(xgraph)): the nodes without predecessors.
first_generation(g) == {n \in g.nodes : predecessors(g, n) = {}}

make_tree_merge_groups(g, opts, depth) ==
    IF depth = 0 THEN <<{}>>
    ELSE <<{}>> \o TreeLevels(g, opts, depth, [n \in first_generation(g) |-> {}], 1)

\* --- _apply_tree_merges --------------------------------------------------------
\* Lines 197-203: the groups of one depth, keyed anew where a parent has
\* been replaced.
NewGroup(group_items, repl) ==
    LET rekey(grp) ==
            IF grp.merge_key.parents \cap DOMAIN repl # {}
            THEN [grp.merge_key EXCEPT
                     !.parents = {Replaced(repl, parent) : parent \in @}]
            ELSE grp.merge_key
    IN  {Group(k, UNION {grp.members : grp \in {h \in group_items : rekey(h) = k}}) :
            k \in {rekey(grp) : grp \in group_items}}

\* Lines 209-216 for the members in the order `members`: the replacements
\* and the new edges afterwards.
RECURSIVE ReplaceMembers(_, _, _, _, _)
ReplaceMembers(g, repl, new_node_key, members, new_edges) ==
    IF members = <<>> THEN [replacements |-> repl, new_edges |-> new_edges]
    ELSE LET member_key == Head(members)
             replaced == [n \in DOMAIN repl \cup {member_key} |->
                             IF n = member_key THEN new_node_key ELSE repl[n]]
         IN  ReplaceMembers(g, replaced, new_node_key, Tail(members),
                 new_edges \cup
                 {<<Replaced(replaced, e[1]), Replaced(replaced, e[2])>> :
                     e \in in_edges_of(g, member_key) \cup out_edges_of(g, member_key)})

\* Lines 207-223 for one group, its members taken in the order `members`.
MergeTreeGroup(g, repl, merge_key, members) ==
    LET new_node_key == MergedNodeKey({members[i] : i \in DOMAIN members})
        done == ReplaceMembers(g, repl, new_node_key, members, {})
        added == add_node(g, new_node_key,
                          NodeState(merge_key.dimensions, merge_key.storage_class_name,
                                    merge_key.task_class_name))
    IN  [xgraph |-> add_edges_from(added, done.new_edges),
         replacements |-> done.replacements]

\* The orders a for loop can take the set `members` in.
Orders(members) ==
    {s \in [1..Cardinality(members) -> members] :
        \A i, j \in DOMAIN s : i # j => s[i] # s[j]}

\* --- The calls -------------------------------------------------------------------
MergeFunctions ==
    {"merge_graph_intermediates", "merge_graph_input_trees", "merge_graph_output_trees"}

InCall == mpc \in {"first call", "second call"}

\* The merge function is called on xgraph: merge_graph_intermediates up to
\* line 107, the tree merges up to line 195.
MergeCall ==
    /\ mpc \in {"before first call", "before second call"}
    /\ mpc' = IF mpc = "before first call" THEN "first call" ELSE "second call"
    /\ replacements' = <<>>
    /\ groups' = IF merge.function = "merge_graph_input_trees"
                 THEN make_tree_merge_groups(xgraph, options, merge.depth)
                 ELSE IF merge.function = "merge_graph_output_trees"
                 THEN make_tree_merge_groups(reverse(xgraph), options, merge.depth)
                 ELSE <<>>
    /\ new_group' = IF merge.function = "merge_graph_intermediates"
                    THEN IntermediateGroups(xgraph, options)
                    ELSE {}
    /\ UNCHANGED <<xgraph, options, merge, merged, tvars, rvars, lvars, pvars, avars>>

\* merge_graph_intermediates, lines 108-124: the next group of two or more.
MergeIntermediates ==
    /\ InCall /\ merge.function = "merge_graph_intermediates"
    /\ \E grp \in Mergeable(new_group) :
          LET done == MergeIntermediateGroup(xgraph, replacements, grp)
          IN  /\ xgraph' = done.xgraph
              /\ replacements' = done.replacements
              /\ new_group' = new_group \ {grp}
    /\ UNCHANGED <<options, merge, groups, mpc, merged, tvars, rvars, lvars, pvars, avars>>

\* The depths still to take at which, with the replacements as they are, a
\* group of two or more comes up; at the others the loop of line 204 only
\* skips.
DepthsToMerge ==
    {i \in DOMAIN groups : Mergeable(NewGroup(groups[i], replacements)) # {}}

\* _apply_tree_merges, lines 196-203: the depths, deepest first, up to the
\* next one that has a group of two or more.
NextDepth ==
    /\ InCall /\ merge.function # "merge_graph_intermediates"
    /\ Mergeable(new_group) = {}
    /\ DepthsToMerge # {}
    /\ new_group' = NewGroup(groups[Greatest(DepthsToMerge)], replacements)
    /\ groups' = SubSeq(groups, 1, Greatest(DepthsToMerge) - 1)
    /\ UNCHANGED <<xgraph, options, merge, replacements, mpc, merged, tvars, rvars, lvars, pvars, avars>>

\* _apply_tree_merges, lines 204-223: the next group of two or more.
MergeTree ==
    /\ InCall /\ merge.function # "merge_graph_intermediates"
    /\ \E grp \in Mergeable(new_group) : \E members \in Orders(grp.members) :
          LET done == MergeTreeGroup(xgraph, replacements, grp.merge_key, members)
          IN  /\ xgraph' = done.xgraph
              /\ replacements' = done.replacements
              /\ new_group' = new_group \ {grp}
    /\ UNCHANGED <<options, merge, groups, mpc, merged, tvars, rvars, lvars, pvars, avars>>

\* The loops are exhausted: the call returns (the tree merges after line
\* 224), leaving xgraph merged in place.
MergeReturn ==
    /\ InCall
    /\ Mergeable(new_group) = {}
    /\ DepthsToMerge = {}
    /\ groups' = <<>>
    /\ xgraph' = IF merge.function = "merge_graph_intermediates" THEN xgraph
                 ELSE remove_nodes_from(xgraph, DOMAIN replacements)
    /\ merged' = Append(merged, xgraph')
    /\ mpc' = IF mpc = "first call" THEN "before second call" ELSE "done"
    /\ new_group' = {}
    /\ UNCHANGED <<options, merge, replacements, tvars, rvars, lvars, pvars, avars>>

\* --- The graphs merged -----------------------------------------------------------
\* The states of a dataset-type node and of a task node.
NodeStates == {NodeState("d1", "S", None), NodeState("d2", None, "T")}

\* No attribute compared, or one of them.
NodeAttributeOptions ==
    {o \in [dimensions : BOOLEAN, task_classes : BOOLEAN, storage_classes : BOOLEAN] :
        Cardinality({f \in {"dimensions", "task_classes", "storage_classes"} : o[f]}) <= 1}

\* The graph of the edges `edges` on the keys 1..n with the states `state`.
MkXGraph(n, edges, state) ==
    XGraph({NodeKey(k) : k \in 1..n},
           {<<NodeKey(e[1]), NodeKey(e[2])>> : e \in edges},
           [node \in {NodeKey(k) : k \in 1..n} |->
               state[CHOOSE k \in 1..n : node = NodeKey(k)]])

\* Three intermediates with the same parent and the same child.
ThreeIntermediates == {<<1, 2>>, <<1, 3>>, <<1, 4>>, <<2, 5>>, <<3, 5>>, <<4, 5>>}

\* Two trees leaf -> inner -> root <- leaf.
TwoTrees == {<<1, 2>>, <<2, 3>>, <<4, 3>>, <<5, 6>>, <<6, 7>>, <<8, 7>>}

\* A root of a two-level and of a three-level tree (3), beside a three-level
\* tree (6) and a two-level tree (8).
TwoLevelRoot == {<<1, 2>>, <<2, 3>>, <<9, 3>>, <<4, 5>>, <<5, 6>>, <<7, 8>>}

Scenarios ==
    {[n |-> 5, edges |-> ThreeIntermediates], [n |-> 8, edges |-> TwoTrees],
     [n |-> 9, edges |-> TwoLevelRoot]}

\* The non-empty DAGs of at most MaxNodes nodes, all nodes but at most one in
\* the same state, and the scenarios with equal node states.
IsMergeInput(g) ==
    \/ \E n \in 1..MaxNodes :
          \E edges \in SUBSET {e \in (1..n) \X (1..n) : e[1] < e[2]} :
              \E state \in [1..n -> NodeStates] :
                  /\ Cardinality({k \in 1..n : state[k] = NodeState("d2", None, "T")}) <= 1
                  /\ g = MkXGraph(n, edges, state)
    \/ \E sc \in Scenarios :
          g = MkXGraph(sc.n, sc.edges, [k \in 1..sc.n |-> NodeState("d1", "S", None)])

MergeInit ==
    /\ TraverseIdle
    /\ ResolverIdle
    /\ LayoutIdle
    /\ TesterIdle
    /\ AnnotatorIdle
    /\ IsMergeInput(xgraph)
    /\ options \in NodeAttributeOptions
    /\ \E function \in MergeFunctions :
          \E depth \in (IF function = "merge_graph_intermediates"
                        THEN {0} ELSE 0..MaxDepth) :
              merge = [function |-> function, depth |-> depth]
    /\ groups = <<>>
    /\ new_group = {}
    /\ replacements = <<>>
    /\ mpc = "before first call"
    /\ merged = <<xgraph>>

MergeNext ==
    \/ MergeCall
    \/ MergeIntermediates
    \/ NextDepth
    \/ MergeTree
    \/ MergeReturn

MergeSpec == MergeInit /\ [][MergeNext]_vars

\* ---------------------------------------------------------------------------
\* Claims about Layout
\* ---------------------------------------------------------------------------
\* The construction has ended, with a Layout or with an exception.
LayoutEnded == lpc \notin {"idle", "building"}

Placed(k) == {locations[i].node : i \in 1..k}

\* A node was left out by the longest path and by the ancestors of its nodes.
C11_Leftover ==
    \E node \in self_graph.nodes :
        /\ node \notin Placed(Len(locations))
        /\ predecessors(self_graph, node) # {}

\* C11: the construction ends with every node placed exactly once: the to-do
\* graph is empty, the final assertion holds and _locations has one column
\* for each node.
C11_EveryNodePlacedOnce ==
    LayoutEnded =>
        /\ lpc = "built"
        /\ todo_graph.nodes = {}
        /\ Placed(Len(locations)) = self_graph.nodes
        /\ Len(locations) = Cardinality(self_graph.nodes)

\* C12: the assertion of _add_unblocked_node never fails, and every placed
\* node comes after all of its predecessors in the placement order.
C12_PlacedAfterPredecessors ==
    /\ lpc # "AssertionError: str(node)"
    /\ \A i \in DOMAIN locations :
          predecessors(self_graph, locations[i].node) \subseteq Placed(i - 1)

\* C12 witness: a layout built through the recursion on remaining ancestors:
\* a node with two predecessors was placed last of four.
C12_Witness ==
    /\ lpc = "built"
    /\ Len(locations) = 4
    /\ Cardinality(predecessors(self_graph, locations[4].node)) >= 2

\* C13: a node takes the column of an earlier node only when that node has no
\* unplaced successor left besides the new node itself; and no continuing
\* entry of a yielded row has the x of the row's node.
C13_ColumnFreeWhenTaken ==
    /\ \A i, j \in DOMAIN locations :
          (i < j /\ locations[i].x = locations[j].x) =>
              successors(self_graph, locations[i].node) \subseteq Placed(j)
    /\ \A r \in DOMAIN rows : \A c \in DOMAIN rows[r].continuing :
          rows[r].continuing[c].x # rows[r].x

\* C13 witness: a yielded row with a continuing entry, in a layout where a
\* column was taken a second time.
C13_Witness ==
    /\ \E r \in DOMAIN rows : rows[r].continuing # <<>>
    /\ \E i, j \in DOMAIN locations : i < j /\ locations[i].x = locations[j].x

\* C14: for a non-empty graph the layout uses, at every point of its
\* construction and when built, at most as many columns as the graph has
\* nodes, and every assigned column lies in 0..x_max.
C14_ColumnsAtMostNodes ==
    self_graph.nodes # {} =>
        /\ x_max + 1 <= Cardinality(self_graph.nodes)
        /\ \A i \in DOMAIN locations : locations[i].x \in 0..x_max

\* C14 witness: a built layout of four nodes in three columns.
C14_Witness ==
    /\ lpc = "built"
    /\ Len(locations) = 4
    /\ x_max = 2

\* ---------------------------------------------------------------------------
\* Claims about the merges
\* ---------------------------------------------------------------------------
\* The graph handed to the first call, and the graph the first and the second
\* call left.
Original == merged[1]

Result == merged[2]

Returned1 == Len(merged) >= 2

Returned2 == Len(merged) = 3

\* The nodes of the result that stand for the original node.
Representatives(node) == {r \in Result.nodes : node.keys \subseteq r.keys}

rep(node) == CHOOSE r \in Result.nodes : node.keys \subseteq r.keys

\* C15: after a merge every original node has one node that represents it,
\* and the edges of the result are the images of the original edges under
\* rep, no more and no less.
C15_EdgesAreImage ==
    Returned1 =>
        /\ \A node \in Original.nodes : Cardinality(Representatives(node)) = 1
        /\ Result.edges = {<<rep(e[1]), rep(e[2])>> : e \in Original.edges}

\* C16: a second call with the same options and depth on the result of the
\* first leaves its nodes and its edges as they are.
C16_Idempotent ==
    Returned2 =>
        /\ merged[3].nodes = Result.nodes
        /\ merged[3].edges = Result.edges

\* C17: a merge never leaves more nodes than it found.
C17_NodeCountNotIncreased ==
    \A i \in DOMAIN merged :
        i > 1 => Cardinality(merged[i].nodes) <= Cardinality(merged[i - 1].nodes)

\* C17 witness: a tree merge that took place and left fewer nodes.
C17_Witness ==
    /\ Returned1
    /\ merge.function # "merge_graph_intermediates"
    /\ Cardinality(Result.nodes) < Cardinality(Original.nodes)

\* The signature merge_graph_intermediates compares.
Signature(node) ==
    <<predecessors(Original, node), successors(Original, node),
      IF options.dimensions THEN Original.state[node].dimensions ELSE None,
      IF options.storage_classes THEN Original.state[node].storage_class_name ELSE None,
      IF options.task_classes THEN Original.state[node].task_class_name ELSE None>>

Siblings(node) == {n \in Original.nodes : Signature(n) = Signature(node)}

Collapses(node) ==
    /\ predecessors(Original, node) # {}
    /\ successors(Original, node) # {}
    /\ Cardinality(Siblings(node)) >= 2

Collapsed(node) == IF Collapses(node) THEN MergedNodeKey(Siblings(node)) ELSE node

\* C18: merge_graph_intermediates turns every set of two or more nodes with
\* parents, children and one signature into one MergedNodeKey of all of them
\* and leaves every other node as it is, state included; the edges are one
\* from each (merged) parent and one to each (merged) child.
C18_IntermediatesCollapsed ==
    (Returned1 /\ merge.function = "merge_graph_intermediates") =>
        /\ Result.nodes = {Collapsed(n) : n \in Original.nodes}
        /\ Result.edges = {<<Collapsed(e[1]), Collapsed(e[2])>> : e \in Original.edges}
        /\ \A n \in Original.nodes : ~Collapses(n) => Result.state[n] = Original.state[n]

\* C18 witness: three intermediates of one parent and one child have become
\* one MergedNodeKey with one edge from the parent and one to the child.
C18_Witness ==
    /\ Returned1 /\ merge.function = "merge_graph_intermediates"
    /\ Result.nodes = {NodeKey(1), NodeKey(5), MergedNodeKey({NodeKey(2), NodeKey(3), NodeKey(4)})}
    /\ Result.edges = {<<NodeKey(1), MergedNodeKey({NodeKey(2), NodeKey(3), NodeKey(4)})>>,
                       <<MergedNodeKey({NodeKey(2), NodeKey(3), NodeKey(4)}), NodeKey(5)>>}

\* The graph the tree levels are counted in.
Upstream == IF merge.function = "merge_graph_output_trees" THEN reverse(Original) ELSE Original

\* The level of a node: 1 without predecessor, else one more than the lowest
\* level among its predecessors.
RECURSIVE TreeLevel(_)
TreeLevel(node) ==
    IF predecessors(Upstream, node) = {} THEN 1
    ELSE 1 + (CHOOSE l \in {TreeLevel(u) : u \in predecessors(Upstream, node)} :
                 \A u \in predecessors(Upstream, node) : l <= TreeLevel(u))

\* C19: a tree merge of depth d puts no node of level d+1 or deeper into a
\* MergedNodeKey, and with d = 0 it leaves the graph as it is.
C19_MergesWithinDepth ==
    (Returned1 /\ merge.function # "merge_graph_intermediates") =>
        /\ \A node \in Original.nodes :
              node \notin Result.nodes => TreeLevel(node) <= merge.depth
        /\ merge.depth = 0 => Result = Original

\* ---------------------------------------------------------------------------
\* Claims about two traversals of one graph
\* ---------------------------------------------------------------------------
\* The generator with frame f has taken its first quantum without a lookup
\* error.
PassedFirstQuantum(f) == f.pos >= 1 /\ f.tpc # "KeyError"

FrameEnded(f) == f.tpc \in {"done", "KeyError", "TypeError"}

TraversalsIndependent ==
    /\ (First.pos = second.pos /\ First.tpc = second.tpc) => First = second
    /\ (FrameEnded(First) /\ FrameEnded(second)) => First = second

\* ---------------------------------------------------------------------------
\* Claims about the records of a traversal
\* ---------------------------------------------------------------------------
\* The quanta in the order the generator takes them, and the k-th of them.
Flat == Flatten(qgraph, order)

TaskAt(k) == qgraph[Flat[k][1]].taskDef

QuantumAt(k) == qgraph[Flat[k][1]].quanta[Flat[k][2]]

\* The keys of the outputs of the k-th quantum, and the keys of its predicted
\* inputs that have no stored identity.
OutputKeys(k) == {<<n, QuantumAt(k).dataId>> : n \in TaskOutputs(TaskAt(k))}

LookedUp(k) ==
    IF QuantumAt(k).stored THEN {}
    ELSE {<<n, QuantumAt(k).dataId>> : n \in TaskInputs(TaskAt(k))}

\* The quanta before the k-th that write the key.
Producers(k, key) == {j \in 1..(k - 1) : key \in OutputKeys(j)}

\* The ids most recently registered for the keys the k-th quantum looks up,
\* the j-th quantum having id j - 1.
ExpectedDependencies(k) ==
    {Greatest(Producers(k, key)) - 1 : key \in {l \in LookedUp(k) : Producers(k, l) # {}}}

\* The k-th quantum looks up a key that no quantum before it writes.
Lacks(k) == \E key \in LookedUp(k) : Producers(k, key) = {}

PositionOf(task_label) == CHOOSE i \in DOMAIN out_edges : out_edges[i].task_label = task_label

\* The i-th read edge that _resolve_dataset_type was called on.
Processed(i) == out_edges[PositionOf(outcome[1].calls[i].task_label)]

\* C23: the read edges are resolved whole-dataset readers first, component
\* readers after them, each class in the order of the graph; each is handed
\* as consumers the task labels of the read edges resolved before it; a call
\* that builds a node has resolved every read edge.
C23_ParentReadersFirst ==
    outcome # <<>> =>
        LET calls == outcome[1].calls
        IN  /\ \A i \in DOMAIN calls : \E k \in DOMAIN out_edges :
                  out_edges[k].task_label = calls[i].task_label
            /\ \A i, j \in DOMAIN calls :
                  i < j =>
                      /\ Processed(i).component = None \/ Processed(j).component # None
                      /\ ((Processed(i).component = None) <=> (Processed(j).component = None))
                            => PositionOf(calls[i].task_label) < PositionOf(calls[j].task_label)
            /\ \A i \in DOMAIN calls :
                  calls[i].consumers = [k \in 1..(i - 1) |-> calls[k].task_label]
            /\ (outcome[1].raised = None /\ ~outcome[1].reused) =>
                  Len(calls) = Len(out_edges)

\* C23 witness: a component reader that comes first in the graph was
\* resolved second, with the whole-dataset reader as its only consumer.
C23_Witness ==
    /\ NodeReturned
    /\ Len(out_edges) = 2
    /\ out_edges[1].component # None /\ out_edges[2].component = None
    /\ outcome[1].calls = <<[task_label |-> out_edges[2].task_label, consumers |-> <<>>],
                            [task_label |-> out_edges[1].task_label,
                             consumers |-> <<out_edges[2].task_label>>]>>

\* C24: resolving a vertex that has no write edge and no read edge yields no
\* node; the call fails an assertion, registered or not.
C24_NoEdgesNoNode ==
    (outcome # <<>> /\ in_edges = <<>> /\ out_edges = <<>>) =>
        /\ outcome[1].raised = "AssertionError"
        /\ outcome[1].node = <<>>

\* C24 witness: the assertion failed for a registered dataset type whose
\* vertex has lost its edges.
C24_Witness ==
    /\ outcome # <<>>
    /\ in_edges = <<>> /\ out_edges = <<>>
    /\ registry # None
    /\ outcome[1].raised = "AssertionError"

\* ---------------------------------------------------------------------------
\* Claims about the passes of _add_active_unblocked and about the rows
\* ---------------------------------------------------------------------------
\* The nodes listed in the active columns.
Endpoints == UNION {active_columns[i].endpoints : i \in DOMAIN active_columns}

\* The number of edges that leave the node in what is still to be placed.
Outgoing(node) == Cardinality({e \in todo_graph.edges : e[1] = node})

\* The node is still to be placed and nothing still to be placed precedes it.
Free(node) == node \in todo_graph.nodes /\ \A e \in todo_graph.edges : e[2] # node

PlacedAt(node) == CHOOSE i \in DOMAIN locations : locations[i].node = node

\* The entries of a list of a row, as a set.
Entries(list) == {list[i] : i \in DOMAIN list}

\* The successors of the origin that are placed after the k-th node.
Remaining(origin, k) == {v \in self_graph.nodes : <<origin, v>> \in self_graph.edges /\ PlacedAt(v) > k}

\* C26: the rows of a constructed Layout are one per node, in placement
\* order, with x = x_max - column; the terminating entries of the row of v
\* are, once each, the edges (u, v), tagged with the x of u, so that every
\* edge terminates exactly once, in the row of its destination; its
\* continuing entries are, once each, the nodes placed before v that have
\* successors placed after v, with those successors; after the last row no
\* origin has a destination left.
C26_RowsCarryEveryEdgeOnce ==
    lpc = "built" =>
        /\ Len(locations) = Cardinality(self_graph.nodes)
        /\ \A k \in DOMAIN rows :
              /\ rows[k].node = locations[k].node
              /\ rows[k].x = x_max - locations[k].x
              /\ Entries(rows[k].terminating) =
                    {[x |-> x_max - locations[PlacedAt(e[1])].x, origin |-> e[1]] :
                        e \in {d \in self_graph.edges : d[2] = rows[k].node}}
              /\ Len(rows[k].terminating) = Cardinality(Entries(rows[k].terminating))
              /\ Entries(rows[k].continuing) =
                    {[x |-> x_max - locations[i].x, origin |-> locations[i].node,
                      destinations |-> Remaining(locations[i].node, k)] :
                        i \in {j \in 1..(k - 1) : Remaining(locations[j].node, k) # {}}}
              /\ Len(rows[k].continuing) = Cardinality(Entries(rows[k].continuing))
        /\ Len(rows) = Len(locations) =>
              \A i \in DOMAIN active_edges : active_edges[i] = {}

\* C26 witness: every row has been yielded, one of them with an edge that
\* terminates and an edge that continues.
C26_Witness ==
    /\ lpc = "built"
    /\ Len(rows) = Len(locations)
    /\ \E k \in DOMAIN rows : rows[k].terminating # <<>> /\ rows[k].continuing # <<>>

\* ---------------------------------------------------------------------------
\* Claims about the nodes of a merged graph
\* ---------------------------------------------------------------------------
\* C28: after a merge the nodes of the result partition the original nodes:
\* every original node is itself a node of the result or a member of a
\* MergedNodeKey of it, of exactly one of the two and of no second
\* MergedNodeKey, and the result has no other node or member.
C28_ResultPartitionsNodes ==
    Returned1 =>
        /\ \A node \in Original.nodes : Cardinality(Representatives(node)) = 1
        /\ \A r \in Result.nodes :
              /\ r.nest = 0 => r \in Original.nodes
              /\ r.nest > 0 => Cardinality(r.keys) >= 2
              /\ \A k \in r.keys : NodeKey(k) \in Original.nodes

\* The nodes that a path of one or more edges leads to from `nodes`.
RECURSIVE ReachableFrom(_, _)
ReachableFrom(g, nodes) ==
    LET more == nodes \cup {v \in g.nodes : \E u \in nodes : <<u, v>> \in g.edges}
    IN  IF more = nodes THEN nodes ELSE ReachableFrom(g, more)

Acyclic(g) ==
    \A node \in g.nodes : node \notin ReachableFrom(g, successors(g, node))

\* C29: the graph a merge has just left, after the first call or the second,
\* has no cycle and no self-loop, and its edges join nodes of the graph.
C29_MergedGraphAcyclic ==
    mpc \in {"before second call", "done"} =>
        /\ Acyclic(xgraph)
        /\ \A e \in xgraph.edges : e[1] \in xgraph.nodes /\ e[2] \in xgraph.nodes

\* C29 witness: a merge has left a MergedNodeKey with an edge into it and an
\* edge out of it.
C29_Witness ==
    /\ Returned1
    /\ \E r \in Result.nodes :
          /\ r.nest > 0
          /\ predecessors(Result, r) # {}
          /\ successors(Result, r) # {}

\* ---------------------------------------------------------------------------
\* PipelineStepTester.run (tests/pipelineStepTester.py)
\* ---------------------------------------------------------------------------
MaxSteps == 2

\* The names of the (parent) dataset types of the pipeline.
DatasetTypeNames == {"x", "y"}

\* PipelineDatasetTypes.fromPipeline for one step: the names of its
\* prerequisites, of its overall inputs (parents of components), of its
\* outputs and of its intermediates, which are disjoint classes; `compatible`
\* is what is_compatible_with answers for the step's inputs.
PipelineDatasetTypes ==
    {dt \in [prerequisites : SUBSET DatasetTypeNames, inputs : SUBSET DatasetTypeNames,
             outputs : SUBSET DatasetTypeNames, intermediates : SUBSET DatasetTypeNames,
             compatible : BOOLEAN] :
        /\ dt.prerequisites \cap (dt.inputs \cup dt.outputs \cup dt.intermediates) = {}
        /\ dt.inputs \cap (dt.outputs \cup dt.intermediates) = {}
        /\ dt.outputs \cap dt.intermediates = {}}

\* dict.update({k: value for k in keys})
Update(mapping, keys, value) ==
    [k \in (DOMAIN mapping) \cup keys |-> IF k \in keys THEN value ELSE mapping[k]]

\* Lines 90-116: the body of the loop for the next suffix.
StepRun ==
    /\ ppc = "running"
    /\ suffix <= Len(steps)
    /\ LET types == steps[suffix]
           with_prerequisites == Update(pure_inputs, types.prerequisites, suffix)
           parent_inputs == types.inputs
           produced == all_outputs \cup types.outputs \cup types.intermediates
       IN  /\ pure_inputs' = Update(with_prerequisites, parent_inputs \ all_outputs, suffix)
           /\ all_outputs' = produced
           /\ IF types.inputs \cap produced # {} /\ ~types.compatible
              THEN ppc' = "AssertionError: not compatible" /\ UNCHANGED suffix
              ELSE suffix' = suffix + 1 /\ UNCHANGED ppc
    /\ UNCHANGED <<steps, expected_inputs, expected_outputs, tvars, rvars, lvars, mvars, avars>>

\* Lines 118-124: the two comparisons with the expected sets.
CheckExpected ==
    /\ ppc = "running"
    /\ suffix > Len(steps)
    /\ ppc' = IF ~(DOMAIN pure_inputs \subseteq expected_inputs)
              THEN "AssertionError: Got unexpected pure_inputs"
              ELSE IF ~(expected_outputs \subseteq all_outputs)
                   THEN "AssertionError: Missing expected_outputs"
                   ELSE "returned"
    /\ UNCHANGED <<steps, expected_inputs, expected_outputs, all_outputs, pure_inputs, suffix,
                   tvars, rvars, lvars, mvars, avars>>

\* run() up to line 88.
TesterInit ==
    /\ TraverseIdle
    /\ ResolverIdle
    /\ LayoutIdle
    /\ MergeIdle
    /\ AnnotatorIdle
    /\ \E n \in 0..MaxSteps : steps \in [1..n -> PipelineDatasetTypes]
    /\ expected_inputs \in {{}, DatasetTypeNames}
    /\ expected_outputs \in {{}, DatasetTypeNames}
    /\ all_outputs = {}
    /\ pure_inputs = <<>>
    /\ suffix = 1
    /\ ppc = "running"

TesterNext ==
    \/ StepRun
    \/ CheckExpected

TesterSpec == TesterInit /\ [][TesterNext]_vars

\* ---------------------------------------------------------------------------
\* QuantumProvenanceGraphStatusAnnotator (pipeline_graph/visualization/_status.py)
\* ---------------------------------------------------------------------------
TaskLabels == {"t1", "t2"}

SummaryDatasetTypes == {"d1", "d2"}

\* qpg.Summary.tasks values and qpg.Summary.datasets values.
TaskSummaries ==
    {[n_expected |-> 2, n_successful |-> 1, n_failed |-> 1, n_blocked |-> 0, n_wonky |-> 0],
     [n_expected |-> 1, n_successful |-> 0, n_failed |-> 0, n_blocked |-> 1, n_wonky |-> 0]}

DatasetSummaries ==
    {[n_expected |-> 2, n_visible |-> 1, n_shadowed |-> 1],
     [n_expected |-> 1, n_visible |-> 1, n_shadowed |-> 0]}

\* NodeKey(NodeType.TASK, label) and NodeKey(NodeType.DATASET_TYPE, name)
TaskKey(task_label) == <<"TASK", task_label>>

DatasetTypeKey(dataset_type_name) == <<"DATASET_TYPE", dataset_type_name>>

\* Lines 114-120.
TaskStatusInfo(task_summary) ==
    [expected |-> task_summary.n_expected, succeded |-> task_summary.n_successful,
     failed |-> task_summary.n_failed, blocked |-> task_summary.n_blocked,
     ready |-> None, running |-> None, wonky |-> task_summary.n_wonky]

\* Lines 129-132.
DatasetTypeStatusInfo(dataset_type_summary) ==
    [expected |-> dataset_type_summary.n_expected,
     produced |-> dataset_type_summary.n_visible + dataset_type_summary.n_shadowed]

\* Lines 113-125: every task of the summary has had its node's status set.
TasksAnnotated(nodes) ==
    [key \in DOMAIN nodes |->
        IF \E label \in DOMAIN qpg_summary.tasks : key = TaskKey(label)
        THEN TaskStatusInfo(qpg_summary.tasks[key[2]])
        ELSE nodes[key]]

\* Lines 134-135 stand after the loop of lines 128-132: they use the name and
\* the status info the last iteration left.
LastAnnotated(nodes) ==
    LET last == qpg_summary.datasets[Len(qpg_summary.datasets)]
    IN  [nodes EXCEPT ![DatasetTypeKey(last.name)] = DatasetTypeStatusInfo(last.summary)]

\* annotator(xgraph, dataset_types)
Annotate ==
    /\ apc = "created"
    /\ IF ~dataset_types
       THEN /\ status' = TasksAnnotated(status)
            /\ apc' = "returned"
       ELSE IF qpg_summary.datasets = <<>>
            THEN /\ status' = TasksAnnotated(status)
                 /\ apc' = "UnboundLocalError"
            ELSE /\ status' = LastAnnotated(TasksAnnotated(status))
                 /\ apc' = "returned"
    /\ UNCHANGED <<qpg_summary, dataset_types, tvars, rvars, lvars, mvars, pvars>>

\* The dataset types of a summary: names in the order of the dict, each with
\* its summary.
Datasets ==
    UNION {{[i \in 1..n |-> [name |-> names[i], summary |-> sums[i]]] :
                names \in {f \in [1..n -> SummaryDatasetTypes] : \A i, j \in 1..n : i # j => f[i] # f[j]},
                sums \in [1..n -> DatasetSummaries]} :
           n \in 0..Cardinality(SummaryDatasetTypes)}

\* The annotator as constructed (lines 101-102) and a graph with a node for
\* every task and every dataset type, none with a status yet.
AnnotatorInit ==
    /\ TraverseIdle
    /\ ResolverIdle
    /\ LayoutIdle
    /\ MergeIdle
    /\ TesterIdle
    /\ qpg_summary \in [tasks : UNION {[labels -> TaskSummaries] : labels \in SUBSET TaskLabels},
                       datasets : Datasets]
    /\ dataset_types \in BOOLEAN
    /\ status = [key \in {TaskKey(t) : t \in TaskLabels}
                          \cup {DatasetTypeKey(d) : d \in SummaryDatasetTypes} |-> None]
    /\ apc = "created"

AnnotatorNext == Annotate

AnnotatorSpec == AnnotatorInit /\ [][AnnotatorNext]_vars

\* ---------------------------------------------------------------------------
\* Claims about PipelineStepTester.run
\* ---------------------------------------------------------------------------
\* The dataset types some step generates: its outputs and its intermediates.
Generated == UNION {steps[i].outputs \cup steps[i].intermediates : i \in DOMAIN steps}

\* Every step has been processed, in the order of step_suffixes.
StepsProcessed == ppc # "idle" /\ suffix > Len(steps)

\* C21: once run has processed the steps in order, pure_inputs holds only
\* dataset types that no step generates, whatever the order in which the
\* steps consume and produce a dataset type, and all_outputs holds every
\* dataset type that some step generates.
C21_PureInputsNeverGenerated ==
    StepsProcessed =>
        /\ (DOMAIN pure_inputs) \cap Generated = {}
        /\ Generated \subseteq all_outputs

\* ---------------------------------------------------------------------------
\* Claims about QuantumProvenanceGraphStatusAnnotator
\* ---------------------------------------------------------------------------
\* The call is over, by a return or by an exception.
Annotated == apc \in {"returned", "UnboundLocalError"}

\* C27: called with dataset_types=True the annotator returns having set the
\* status of every task node and of every dataset-type node of the summary
\* (expected = n_expected, produced = n_visible + n_shadowed), for any number
\* of dataset types, zero included; called with dataset_types=False it sets
\* every task node and leaves the dataset-type nodes as they were.
C27_EverySummaryNodeAnnotated ==
    Annotated =>
        /\ \A label \in DOMAIN qpg_summary.tasks :
              status[TaskKey(label)] = TaskStatusInfo(qpg_summary.tasks[label])
        /\ IF dataset_types
           THEN /\ apc = "returned"
                /\ \A i \in DOMAIN qpg_summary.datasets :
                      status[DatasetTypeKey(qpg_summary.datasets[i].name)] =
                          [expected |-> qpg_summary.datasets[i].summary.n_expected,
                           produced |-> qpg_summary.datasets[i].summary.n_visible
                                        + qpg_summary.datasets[i].summary.n_shadowed]
           ELSE \A name \in SummaryDatasetTypes : status[DatasetTypeKey(name)] = None

====
